---- MODULE Spec2Model ----
(***************************************************************************)
(* Moltbook identity verification middleware.                              *)
(*                                                                         *)
(*   middleware/moltbook-auth.js   verifyMoltbookIdentity (Express form),  *)
(*                                 getStatusCodeForError, getErrorHint     *)
(*   moltbook-auth.types.ts        MoltbookAuthMiddleware (typed class)    *)
(*                                                                         *)
(* A request is handled by one invocation of an async function.  The       *)
(* invocation runs synchronously up to `await fetch(...)`, is resumed when *)
(* the fetch promise settles, runs up to `await response.json()`, and is   *)
(* resumed a last time when the body promise settles.  Each of these       *)
(* synchronous stretches is one action.  The remote service and the host   *)
(* (the `next` callback and the `res` object) are the environment.         *)
(***************************************************************************)
EXTENDS Integers, Sequences, FiniteSets, TLC

\* ------------------------------------------------------------------ bounds
\* Number of distinct identity tokens a caller may present.
NumTokens == 1
\* Number of distinct agent profiles the remote service may return.
NumAgents == 1

\* The request slots: the invocations that may be in flight together.
Reqs == {"r1", "r2"}

\* ------------------------------------------------------- JavaScript values
\* A JavaScript value: its type tag t, a numeric payload n, a text payload s.
Undefined == [t |-> "undefined", n |-> 0, s |-> ""]
Null      == [t |-> "null", n |-> 0, s |-> ""]
True      == [t |-> "boolean", n |-> 1, s |-> ""]
False     == [t |-> "boolean", n |-> 0, s |-> ""]
Num(k)    == [t |-> "number", n |-> k, s |-> ""]
Str(x)    == [t |-> "string", n |-> 0, s |-> x]
\* A function object (the built-ins reachable through Object.prototype).
Fn(name)  == [t |-> "function", n |-> 0, s |-> name]
\* An object; n tells the objects of one class apart.
Obj(class, k) == [t |-> "object", n |-> k, s |-> class]

\* ToBoolean: what `!v` and `v || d` test.
Truthy(v) ==
  CASE v.t = "undefined" -> FALSE
    [] v.t = "null"      -> FALSE
    [] v.t = "boolean"   -> v.n = 1
    [] v.t = "number"    -> v.n # 0
    [] v.t = "string"    -> v.s # ""
    [] OTHER             -> TRUE

\* `a || b`
OrElse(a, b) == IF Truthy(a) THEN a ELSE b

\* ToPropertyKey: the key a value names when used in `obj[value]`.
PropertyKey(v) ==
  CASE v.t = "string"    -> v.s
    [] v.t = "undefined" -> "undefined"
    [] v.t = "null"      -> "null"
    [] v.t = "boolean"   -> IF v.n = 1 THEN "true" ELSE "false"
    [] OTHER             -> "[object]"

\* Properties every object literal inherits from Object.prototype.
ObjectPrototype ==
  [constructor |-> Fn("Object"),
   toString |-> Fn("toString"),
   valueOf |-> Fn("valueOf"),
   hasOwnProperty |-> Fn("hasOwnProperty")]

\* `literal[key]` for an object literal: own property, else inherited, else
\* undefined.
Lookup(literal, key) ==
  LET k == PropertyKey(key) IN
  IF k \in DOMAIN literal THEN literal[k]
  ELSE IF k \in DOMAIN ObjectPrototype THEN ObjectPrototype[k]
  ELSE Undefined

\* ------------------------------------------------------------ error tables
statusMap ==
  [identity_token_expired |-> Num(401),
   invalid_token |-> Num(401),
   agent_not_found |-> Num(404),
   agent_deactivated |-> Num(403),
   audience_required |-> Num(401),
   audience_mismatch |-> Num(401),
   rate_limit_exceeded |-> Num(429),
   missing_app_key |-> Num(401),
   invalid_app_key |-> Num(401)]

hints ==
  [identity_token_expired |-> Str("Your identity token has expired. Request a new token from Moltbook and try again."),
   invalid_token |-> Str("The identity token is malformed or has been tampered with."),
   agent_not_found |-> Str("The agent associated with this token no longer exists."),
   agent_deactivated |-> Str("This agent has been deactivated or banned."),
   audience_required |-> Str("This token requires audience verification."),
   audience_mismatch |-> Str("This token was issued for a different service."),
   rate_limit_exceeded |-> Str("Too many verification requests. Please wait and try again."),
   missing_app_key |-> Str("The server is not configured with a Moltbook app key."),
   invalid_app_key |-> Str("The server's Moltbook app key is invalid or has been revoked.")]

\* Variant: `return statusMap[error] || 500;`.
getStatusCodeForError_default500(error) == OrElse(Lookup(statusMap, error), Num(500))

\* Variant: the lookup table dropped, every rejection answered 401.
getStatusCodeForError_always401(error) == Num(401)

\* return statusMap[error] || 401;
getStatusCodeForError(error) == OrElse(Lookup(statusMap, error), Num(401))

\* Variant: the hint table dropped, every rejection given the generic hint.
getErrorHint_generic(error) == Str("Identity verification failed.")

\* return hints[error] || 'Identity verification failed.';
getErrorHint(error) == OrElse(Lookup(hints, error), Str("Identity verification failed."))

\* Typed class: MoltbookAuthMiddleware.getStatusCodeForError / getErrorHint.
tsStatusMap ==
  [identity_token_expired |-> Num(401),
   invalid_token |-> Num(401),
   agent_not_found |-> Num(404),
   agent_deactivated |-> Num(403),
   audience_required |-> Num(401),
   audience_mismatch |-> Num(401),
   rate_limit_exceeded |-> Num(429),
   missing_app_key |-> Num(401),
   invalid_app_key |-> Num(401)]

tsHints ==
  [identity_token_expired |-> Str("Your identity token has expired. Request a new token from Moltbook and try again."),
   invalid_token |-> Str("The identity token is malformed or has been tampered with."),
   agent_not_found |-> Str("The agent associated with this token no longer exists."),
   agent_deactivated |-> Str("This agent has been deactivated or banned."),
   audience_required |-> Str("This token requires audience verification."),
   audience_mismatch |-> Str("This token was issued for a different service."),
   rate_limit_exceeded |-> Str("Too many verification requests. Please wait and try again."),
   missing_app_key |-> Str("The server is not configured with a Moltbook app key."),
   invalid_app_key |-> Str("The server's Moltbook app key is invalid or has been revoked.")]

\* return statusMap[error as MoltbookErrorCode] || 401;
MoltbookAuthMiddleware_getStatusCodeForError(error) ==
  OrElse(Lookup(tsStatusMap, error), Num(401))

\* return hints[error as MoltbookErrorCode] || 'Identity verification failed.';
MoltbookAuthMiddleware_getErrorHint(error) ==
  OrElse(Lookup(tsHints, error), Str("Identity verification failed."))

\* ----------------------------------------------------------- configuration
MOLTBOOK_VERIFY_ENDPOINT == Str("https://moltbook.com/api/v1/agents/verify-identity")

\* Variant: `process.env.MOLTBOOK_APP_KEY` read where the value is used.
ModuleConstant_readEachTime(atLoad, now) == now

\* `const MOLTBOOK_APP_KEY = process.env.MOLTBOOK_APP_KEY;` at the top of the
\* module: evaluated once, when the module is loaded.
ModuleConstant(atLoad, now) == atLoad

\* `process.env.NAME = v` stores String(v).
EnvAssign(v) == IF v.t = "string" THEN v ELSE Str(PropertyKey(v))

\* What process.env may hold for a variable when the module is loaded.
EnvAppKeys   == {Undefined, Str(""), Str("moltdev_abc123")}
EnvAudiences == {Undefined, Str(""), Str("api.myservice.io")}
\* The headerName a MoltbookAuthMiddleware may be configured with: none (the
\* default applies) or the header's name as the documentation spells it.
HeaderNames == {Undefined, Str("X-Moltbook-Identity")}

\* Variant: `this.audience = config.audience`, without the default.
MoltbookAuthMiddleware_constructor_noDefault(config) ==
  [apiKey |-> config.apiKey,
   audience |-> config.audience,
   verifyEndpoint |-> OrElse(config.verifyEndpoint,
                             Str("https://moltbook.com/api/v1/agents/verify-identity")),
   headerName |-> OrElse(config.headerName, Str("x-moltbook-identity"))]

\* new MoltbookAuthMiddleware(config)
MoltbookAuthMiddleware_constructor(config) ==
  [apiKey |-> config.apiKey,
   audience |-> OrElse(config.audience, Str("default")),
   verifyEndpoint |-> OrElse(config.verifyEndpoint,
                             Str("https://moltbook.com/api/v1/agents/verify-identity")),
   headerName |-> OrElse(config.headerName, Str("x-moltbook-identity"))]

\* ------------------------------------------------------------------ inputs
\* An identity token: an opaque non-empty string.
Token(i) == [t |-> "string", n |-> i, s |-> "identity-token"]
\* What the request's header map holds under 'x-moltbook-identity', and what
\* a caller of the standalone form may pass as its argument.
HeaderValues == {Undefined, Str("")} \cup {Token(i) : i \in 1..NumTokens}
\* A header that occurs as a list of values; First is its element 0.
First(v) == [v EXCEPT !.t = "string"]

\* An agent profile object of the remote service.
Agent(i) == Obj("agent", i)
AgentValues == {Undefined, Null} \cup {Agent(i) : i \in 1..NumAgents}

TableCodes == DOMAIN statusMap
ErrorValues ==
  {Undefined, Str("")} \cup {Str(c) : c \in TableCodes}
    \cup {Str("some_future_code"), Str("constructor"), Str("toString")}
    \cup {Str("Server configuration error"), Str("moltdev_abc123")}
RemoteHint == Str("Token expired. Request a new token.")

\* The parsed JSON body of the remote answer.  kind "null" is the JSON text
\* null, "primitive" a number, string or boolean (every property read gives
\* undefined), "object" an object whose absent fields read as undefined.
NoData == [kind |-> "none", valid |-> Undefined, error |-> Undefined,
           agent |-> Undefined, hint |-> Undefined]
RejectionBodies ==
  {[kind |-> "object", valid |-> False, error |-> e, agent |-> Undefined, hint |-> h] :
      e \in ErrorValues, h \in {Undefined, RemoteHint}}
  \cup {[kind |-> "object", valid |-> Undefined, error |-> e, agent |-> Undefined,
         hint |-> Undefined] : e \in ErrorValues}
  \cup {[kind |-> "object", valid |-> False, error |-> Str("invalid_token"),
         agent |-> Agent(1), hint |-> Undefined]}
SuccessBodies ==
  {[kind |-> "object", valid |-> v, error |-> Undefined, agent |-> a, hint |-> Undefined] :
      v \in {True}, a \in AgentValues}
  \cup {[kind |-> "object", valid |-> Num(1), error |-> Undefined, agent |-> Agent(1),
         hint |-> Undefined]}
ParsedBodies ==
  RejectionBodies \cup SuccessBodies
    \cup {[NoData EXCEPT !.kind = "null"], [NoData EXCEPT !.kind = "primitive"]}

\* ------------------------------------------------------------------- state
VARIABLES
  MOLTBOOK_APP_KEY,   \* module constant: process.env.MOLTBOOK_APP_KEY at load
  MY_DOMAIN,          \* module constant: the audience
  auth,               \* the MoltbookAuthMiddleware instance
  env,                \* process.env
  pc,                 \* where each invocation is suspended
  impl,               \* which implementation runs the invocation: "js" or "ts"
  form,               \* its entry point: "middleware" or "standalone"
  identityToken,      \* the invocation's local `identityToken`
  req,                \* the request object
  res,                \* the response object
  nextCalls,          \* how often next() was called
  outbound,           \* the fetch calls issued for the request
  remote,             \* what the remote did with the call
  promise,            \* state of the promise the invocation returned
  result,             \* what that promise settled with
  hostDid,            \* what the host's next and res did to the invocation
  tester              \* the run of testInvalidApiKey: position and locals

config == <<MOLTBOOK_APP_KEY, MY_DOMAIN, auth, env>>
invocation == <<impl, form, identityToken>>
vars == <<MOLTBOOK_APP_KEY, MY_DOMAIN, auth, env, pc, impl, form, identityToken,
          req, res, nextCalls, outbound, remote, promise, result, hostDid, tester>>

NewRequest == [header |-> Undefined, moltbookAgent |-> Undefined, assigned |-> FALSE]
NewResponse == [statusCode |-> Undefined, error |-> Undefined, hint |-> Undefined,
                jsonCalls |-> 0]
NoResult == [value |-> NoData, error |-> Undefined]
NoHostEvent == [nextThrew |-> FALSE, resThrew |-> FALSE]
NotTesting == [pc |-> "idle", slot |-> "none", originalKey |-> Undefined,
               returned |-> Undefined]

Init ==
  /\ \E key \in EnvAppKeys, aud \in EnvAudiences, name \in HeaderNames :
       /\ env = [MOLTBOOK_APP_KEY |-> key, MOLTBOOK_AUDIENCE |-> aud]
       /\ MOLTBOOK_APP_KEY = key
       /\ MY_DOMAIN = OrElse(aud, Str("default"))
       /\ auth = MoltbookAuthMiddleware_constructor(
                   [apiKey |-> key, audience |-> aud,
                    verifyEndpoint |-> Undefined, headerName |-> name])
  /\ pc = [r \in Reqs |-> "idle"]
  /\ impl = [r \in Reqs |-> "none"]
  /\ form = [r \in Reqs |-> "none"]
  /\ identityToken = [r \in Reqs |-> Undefined]
  /\ result = [r \in Reqs |-> NoResult]
  /\ hostDid = [r \in Reqs |-> NoHostEvent]
  /\ req = [r \in Reqs |-> NewRequest]
  /\ res = [r \in Reqs |-> NewResponse]
  /\ nextCalls = [r \in Reqs |-> 0]
  /\ outbound = [r \in Reqs |-> <<>>]
  /\ remote = [r \in Reqs |-> [answer |-> "none", data |-> NoData]]
  /\ promise = [r \in Reqs |-> "none"]
  /\ tester = NotTesting

\* ------------------------------------------------------- host and transport
\* res.status(code).json({error, hint}) on the host's response object.
Respond(rs, code, error, hint) ==
  [statusCode |-> code, error |-> error, hint |-> hint, jsonCalls |-> rs.jsonCalls + 1]

\* req.headers[name]: the host's header map holds the identity header under
\* its lower-cased name and nothing under any other spelling.
HeaderLookup(rq, name) ==
  IF name = Str("x-moltbook-identity") THEN rq.header ELSE Undefined

\* Variant: the credential and the token change places.
FetchCall_swapped(url, key, token, audience) ==
  [url |-> url, method |-> "POST", appKey |-> token, token |-> key, audience |-> audience]

\* fetch(url, {method: 'POST', headers: {'X-Moltbook-App-Key': key},
\*             body: JSON.stringify({token, audience})})
FetchCall(url, key, token, audience) ==
  [url |-> url, method |-> "POST", appKey |-> key, token |-> token, audience |-> audience]

\* The result of one synchronous stretch of an invocation.
Stretch(rq, rs, n, p) == [req |-> rq, res |-> rs, nextCalls |-> n, promise |-> p]

\* ------------------------------------------- verifyMoltbookIdentity (js)
\* Variant: a token that an earlier request presented is refused as missing.
TokenMissing_seenBefore(token) ==
  \/ ~Truthy(token)
  \/ \E q \in Reqs : pc[q] = "done" /\ form[q] = "middleware" /\ identityToken[q] = token

\* Variant: the credential check placed before the token check.
TokenMissing_afterKey(token) == ~Truthy(token) /\ Truthy(MOLTBOOK_APP_KEY)

\* Variant: `if (identityToken === undefined)`.
TokenMissing_undefinedOnly(token) == token = Undefined

\* if (!identityToken)
TokenMissing(token) == ~Truthy(token)

\* Variant: `if (MOLTBOOK_APP_KEY === undefined)`.
AppKeyMissing_undefinedOnly(key) == key = Undefined

\* if (!MOLTBOOK_APP_KEY)
AppKeyMissing(key) == ~Truthy(key)

\* if (!data.valid)
VerificationFailed(data) == ~Truthy(data.valid)

\* Variant: the catch block logs and rethrows.
CatchBlock_rethrow(rq, rs, n) == Stretch(rq, rs, n, "rejected")

\* catch (error) { console.error(...); return res.status(500).json({...}); }
CatchBlock(rq, rs, n) ==
  Stretch(rq,
          Respond(rs, Num(500), Str("Failed to verify identity"),
                  Str("An error occurred while verifying your identity. Please try again.")),
          n, "resolved")

\* return res.status(401).json({error: 'Missing identity token', ...})
MissingTokenResponse(rs) ==
  Respond(rs, Num(401), Str("Missing identity token"),
          Str("Include X-Moltbook-Identity header with your identity token"))

\* return res.status(500).json({error: 'Server configuration error', ...})
MissingKeyResponse(rs) ==
  Respond(rs, Num(500), Str("Server configuration error"),
          Str("MOLTBOOK_APP_KEY is not configured"))

\* Variant: `const data = await response.json(); if (!data.valid)` placed
\* before the try block, so that a TypeError on `null.valid` escapes.
verifyMoltbookIdentity_afterBody_unguarded(rq, rs, n, data, nextThrows, strictRes) ==
  IF data.kind = "null" THEN Stretch(rq, rs, n, "rejected")
  ELSE IF ~Truthy(data.valid) THEN
    Stretch(rq, Respond(rs, getStatusCodeForError(data.error), data.error,
                        getErrorHint(data.error)), n, "resolved")
  ELSE Stretch([rq EXCEPT !.moltbookAgent = data.agent, !.assigned = TRUE],
               rs, n + 1, "resolved")

\* The stretch from `const data = await response.json()` to the end.
\* nextThrows: the host's next() throws; strictRes: the host's res rejects a
\* status that is not a number by throwing (Express), instead of storing it.
verifyMoltbookIdentity_afterBody(rq, rs, n, data, nextThrows, strictRes) ==
  IF data.kind = "null" THEN CatchBlock(rq, rs, n)
  ELSE IF VerificationFailed(data) THEN
    LET statusCode == getStatusCodeForError(data.error) IN
    IF strictRes /\ statusCode.t # "number" THEN CatchBlock(rq, rs, n)
    ELSE Stretch(rq, Respond(rs, statusCode, data.error, getErrorHint(data.error)),
                 n, "resolved")
  ELSE
    LET attached == [rq EXCEPT !.moltbookAgent = data.agent, !.assigned = TRUE] IN
    \* `${data.agent.name}` throws a TypeError on undefined and on null
    IF data.agent.t \in {"undefined", "null"} THEN CatchBlock(attached, rs, n)
    ELSE IF nextThrows THEN CatchBlock(attached, rs, n + 1)
    ELSE Stretch(attached, rs, n + 1, "resolved")

\* ------------------------------------------ MoltbookAuthMiddleware.verify
\* if (!identityToken)
MoltbookAuthMiddleware_tokenMissing(token) == ~Truthy(token)

\* if (!this.apiKey)
MoltbookAuthMiddleware_apiKeyMissing(key) == ~Truthy(key)

\* Variant: `if (data.valid === false)`.
MoltbookAuthMiddleware_verificationFailed_strict(data) == data.valid = False

\* if (!data.valid)
MoltbookAuthMiddleware_verificationFailed(data) == ~Truthy(data.valid)

\* typeof identityToken === 'string' ? identityToken : identityToken[0]
MoltbookAuthMiddleware_token(found) ==
  IF found.t = "string" THEN found ELSE First(found)

\* catch (error) { console.error(...); res.status(500).json({...}); }
MoltbookAuthMiddleware_catchBlock(rq, rs, n) ==
  Stretch(rq,
          Respond(rs, Num(500), Str("Failed to verify identity"),
                  Str("An error occurred while verifying your identity. Please try again.")),
          n, "resolved")

\* hint: `Include ${this.headerName} header with your identity token`
MoltbookAuthMiddleware_missingTokenResponse(rs, headerName) ==
  Respond(rs, Num(401), Str("Missing identity token"),
          [t |-> "string", n |-> 0,
           s |-> "Include " \o headerName.s \o " header with your identity token"])

MoltbookAuthMiddleware_missingKeyResponse(rs) ==
  Respond(rs, Num(500), Str("Server configuration error"),
          Str("MOLTBOOK_APP_KEY is not configured"))

MoltbookAuthMiddleware_verify_afterBody(rq, rs, n, data, nextThrows, strictRes) ==
  IF data.kind = "null" THEN MoltbookAuthMiddleware_catchBlock(rq, rs, n)
  ELSE IF MoltbookAuthMiddleware_verificationFailed(data) THEN
    LET statusCode == MoltbookAuthMiddleware_getStatusCodeForError(data.error) IN
    IF strictRes /\ statusCode.t # "number"
    THEN MoltbookAuthMiddleware_catchBlock(rq, rs, n)
    ELSE Stretch(rq, Respond(rs, statusCode, data.error,
                             MoltbookAuthMiddleware_getErrorHint(data.error)),
                 n, "resolved")
  ELSE
    LET attached == [rq EXCEPT !.moltbookAgent = data.agent, !.assigned = TRUE] IN
    \* `${data.agent?.name}` never throws
    IF nextThrows THEN MoltbookAuthMiddleware_catchBlock(attached, rs, n + 1)
    ELSE Stretch(attached, rs, n + 1, "resolved")

\* ----------------------------------------------------------------- actions
Finish(r, out) ==
  /\ req' = [req EXCEPT ![r] = out.req]
  /\ res' = [res EXCEPT ![r] = out.res]
  /\ nextCalls' = [nextCalls EXCEPT ![r] = out.nextCalls]
  /\ promise' = [promise EXCEPT ![r] = out.promise]
  /\ pc' = [pc EXCEPT ![r] = "done"]

\* A request arrives at the js middleware: the stretch up to `await fetch`.
verifyMoltbookIdentity(r) ==
  /\ pc[r] = "idle"
  /\ \E h \in HeaderValues :
       LET rq == [NewRequest EXCEPT !.header = h]
           token == HeaderLookup(rq, Str("x-moltbook-identity"))
           key == ModuleConstant(MOLTBOOK_APP_KEY, env.MOLTBOOK_APP_KEY)
       IN
       /\ impl' = [impl EXCEPT ![r] = "js"]
       /\ form' = [form EXCEPT ![r] = "middleware"]
       /\ identityToken' = [identityToken EXCEPT ![r] = token]
       /\ IF TokenMissing(token) THEN
            /\ Finish(r, Stretch(rq, MissingTokenResponse(res[r]), nextCalls[r], "resolved"))
            /\ UNCHANGED outbound
          ELSE IF AppKeyMissing(key) THEN
            /\ Finish(r, Stretch(rq, MissingKeyResponse(res[r]), nextCalls[r], "resolved"))
            /\ UNCHANGED outbound
          ELSE
            /\ req' = [req EXCEPT ![r] = rq]
            /\ outbound' = [outbound EXCEPT ![r] =
                 Append(@, FetchCall(MOLTBOOK_VERIFY_ENDPOINT, key, token, MY_DOMAIN))]
            /\ promise' = [promise EXCEPT ![r] = "pending"]
            /\ pc' = [pc EXCEPT ![r] = "await_fetch"]
            /\ UNCHANGED <<res, nextCalls>>
  /\ UNCHANGED <<config, tester, remote, result, hostDid>>

\* A request arrives at the typed middleware.
MoltbookAuthMiddleware_verify(r) ==
  /\ pc[r] = "idle"
  /\ \E h \in HeaderValues :
       LET rq == [NewRequest EXCEPT !.header = h]
           found == HeaderLookup(rq, auth.headerName)
       IN
       /\ impl' = [impl EXCEPT ![r] = "ts"]
       /\ form' = [form EXCEPT ![r] = "middleware"]
       /\ identityToken' = [identityToken EXCEPT ![r] = found]
       /\ IF MoltbookAuthMiddleware_tokenMissing(found) THEN
            /\ Finish(r, Stretch(rq, MoltbookAuthMiddleware_missingTokenResponse(
                                       res[r], auth.headerName),
                                 nextCalls[r], "resolved"))
            /\ UNCHANGED outbound
          ELSE IF MoltbookAuthMiddleware_apiKeyMissing(auth.apiKey) THEN
            /\ Finish(r, Stretch(rq, MoltbookAuthMiddleware_missingKeyResponse(res[r]),
                                 nextCalls[r], "resolved"))
            /\ UNCHANGED outbound
          ELSE
            /\ req' = [req EXCEPT ![r] = rq]
            /\ outbound' = [outbound EXCEPT ![r] =
                 Append(@, FetchCall(auth.verifyEndpoint, auth.apiKey,
                                     MoltbookAuthMiddleware_token(found), auth.audience))]
            /\ promise' = [promise EXCEPT ![r] = "pending"]
            /\ pc' = [pc EXCEPT ![r] = "await_fetch"]
            /\ UNCHANGED <<res, nextCalls>>
  /\ UNCHANGED <<config, tester, remote, result, hostDid>>

\* The remote answers with an HTTP response: fetch fulfils and the
\* invocation calls response.json().
FetchFulfilled(r) ==
  /\ pc[r] = "await_fetch"
  /\ pc' = [pc EXCEPT ![r] = "await_json"]
  /\ remote' = [remote EXCEPT ![r].answer = "response"]
  /\ UNCHANGED <<config, tester, invocation, req, res, nextCalls, outbound, promise, result, hostDid>>

\* The handler's own catch block, by implementation.
Caught(r) ==
  IF impl[r] = "js" THEN CatchBlock(req[r], res[r], nextCalls[r])
  ELSE MoltbookAuthMiddleware_catchBlock(req[r], res[r], nextCalls[r])

\* Variant: the catch block retries the call once before giving up.
FetchRejected_retry(r) ==
  /\ pc[r] = "await_fetch" /\ form[r] = "middleware"
  /\ remote' = [remote EXCEPT ![r].answer = "network_error"]
  /\ IF Len(outbound[r]) < 2
     THEN /\ outbound' = [outbound EXCEPT ![r] = Append(@, @[1])]
          /\ UNCHANGED <<pc, req, res, nextCalls, promise>>
     ELSE Finish(r, Caught(r)) /\ UNCHANGED outbound
  /\ UNCHANGED <<config, tester, invocation, result, hostDid>>

\* The call fails in transport: fetch rejects and the catch block runs.
FetchRejected(r) ==
  /\ pc[r] = "await_fetch" /\ form[r] = "middleware"
  /\ remote' = [remote EXCEPT ![r].answer = "network_error"]
  /\ Finish(r, Caught(r))
  /\ UNCHANGED <<config, tester, invocation, outbound, result, hostDid>>

\* The body is not JSON: response.json() rejects and the catch block runs.
BodyUnparseable(r) ==
  /\ pc[r] = "await_json" /\ form[r] = "middleware"
  /\ remote' = [remote EXCEPT ![r].answer = "bad_json"]
  /\ Finish(r, Caught(r))
  /\ UNCHANGED <<config, tester, invocation, outbound, result, hostDid>>

\* Variant: `data` kept in a variable of the module instead of a local of
\* the invocation, so that a resumed invocation reads the body parsed last.
BodyParsed_sharedData(r) ==
  /\ pc[r] = "await_json" /\ form[r] = "middleware"
  /\ \E data \in ParsedBodies, nextThrows \in BOOLEAN, strictRes \in BOOLEAN :
       LET last == IF \E q \in Reqs \ {r} : remote[q].answer = "json"
                   THEN (CHOOSE q \in Reqs \ {r} : remote[q].answer = "json")
                   ELSE r
           seen == IF last = r THEN data ELSE remote[last].data
           out(nt, sr) ==
             IF impl[r] = "js"
             THEN verifyMoltbookIdentity_afterBody(req[r], res[r], nextCalls[r], seen, nt, sr)
             ELSE MoltbookAuthMiddleware_verify_afterBody(
                    req[r], res[r], nextCalls[r], seen, nt, sr)
       IN
       /\ remote' = [remote EXCEPT ![r] = [answer |-> "json", data |-> data]]
       /\ hostDid' = [hostDid EXCEPT ![r] =
            [nextThrew |-> nextThrows /\ out(TRUE, strictRes) # out(FALSE, strictRes),
             resThrew |-> strictRes /\ out(nextThrows, TRUE) # out(nextThrows, FALSE)]]
       /\ Finish(r, out(nextThrows, strictRes))
  /\ UNCHANGED <<config, tester, invocation, outbound, result>>

\* The body parses to `data`: the invocation runs to its end.  hostDid keeps
\* what the host did where the run depended on it.
BodyParsed(r) ==
  /\ pc[r] = "await_json" /\ form[r] = "middleware"
  /\ \E data \in ParsedBodies, nextThrows \in BOOLEAN, strictRes \in BOOLEAN :
       LET out(nt, sr) ==
             IF impl[r] = "js"
             THEN verifyMoltbookIdentity_afterBody(req[r], res[r], nextCalls[r], data, nt, sr)
             ELSE MoltbookAuthMiddleware_verify_afterBody(
                    req[r], res[r], nextCalls[r], data, nt, sr)
       IN
       /\ remote' = [remote EXCEPT ![r] = [answer |-> "json", data |-> data]]
       /\ hostDid' = [hostDid EXCEPT ![r] =
            [nextThrew |-> nextThrows /\ out(TRUE, strictRes) # out(FALSE, strictRes),
             resThrew |-> strictRes /\ out(nextThrows, TRUE) # out(nextThrows, FALSE)]]
       /\ Finish(r, out(nextThrows, strictRes))
  /\ UNCHANGED <<config, tester, invocation, outbound, result>>

\* ------------------------------------------------------- standalone form
\* Variant: `if (MOLTBOOK_APP_KEY === undefined) throw ...`.
verifyIdentityToken_keyMissing_undefinedOnly(key) == key = Undefined

\* if (!MOLTBOOK_APP_KEY) throw new Error(...)
verifyIdentityToken_keyMissing(key) == ~Truthy(key)

\* if (!this.apiKey) throw new Error(...)
MoltbookAuthMiddleware_verifyToken_keyMissing(key) == ~Truthy(key)

\* new Error('MOLTBOOK_APP_KEY environment variable is not set')
ConfigurationError == Str("MOLTBOOK_APP_KEY environment variable is not set")

\* The standalone promise settles.
Settle(r, state, value, error) ==
  /\ promise' = [promise EXCEPT ![r] = state]
  /\ result' = [result EXCEPT ![r] = [value |-> value, error |-> error]]
  /\ pc' = [pc EXCEPT ![r] = "done"]

\* The stretch of verifyIdentityToken(token) up to `await fetch`, with `key`
\* the value it reads for MOLTBOOK_APP_KEY.
verifyIdentityToken_call(r, token, key) ==
  /\ impl' = [impl EXCEPT ![r] = "js"]
  /\ form' = [form EXCEPT ![r] = "standalone"]
  /\ identityToken' = [identityToken EXCEPT ![r] = token]
  /\ IF verifyIdentityToken_keyMissing(key) THEN
       /\ Settle(r, "rejected", NoData, ConfigurationError)
       /\ UNCHANGED outbound
     ELSE
       /\ outbound' = [outbound EXCEPT ![r] =
            Append(@, FetchCall(MOLTBOOK_VERIFY_ENDPOINT, key, token, MY_DOMAIN))]
       /\ promise' = [promise EXCEPT ![r] = "pending"]
       /\ pc' = [pc EXCEPT ![r] = "await_fetch"]
       /\ UNCHANGED result

\* verifyIdentityToken(identityToken) is called by the application.
verifyIdentityToken(r) ==
  /\ pc[r] = "idle"
  /\ \E token \in HeaderValues :
       verifyIdentityToken_call(r, token,
                                ModuleConstant(MOLTBOOK_APP_KEY, env.MOLTBOOK_APP_KEY))
  /\ UNCHANGED <<config, tester, req, res, nextCalls, remote, hostDid>>

\* auth.verifyToken(identityToken) is called.
MoltbookAuthMiddleware_verifyToken(r) ==
  /\ pc[r] = "idle"
  /\ \E token \in HeaderValues :
       /\ impl' = [impl EXCEPT ![r] = "ts"]
       /\ form' = [form EXCEPT ![r] = "standalone"]
       /\ identityToken' = [identityToken EXCEPT ![r] = token]
       /\ IF MoltbookAuthMiddleware_verifyToken_keyMissing(auth.apiKey) THEN
            /\ Settle(r, "rejected", NoData, ConfigurationError)
            /\ UNCHANGED outbound
          ELSE
            /\ outbound' = [outbound EXCEPT ![r] =
                 Append(@, FetchCall(auth.verifyEndpoint, auth.apiKey,
                                     token, auth.audience))]
            /\ promise' = [promise EXCEPT ![r] = "pending"]
            /\ pc' = [pc EXCEPT ![r] = "await_fetch"]
            /\ UNCHANGED result
  /\ UNCHANGED <<config, tester, req, res, nextCalls, remote, hostDid>>

\* fetch rejects: nothing catches it, the standalone promise rejects with it.
StandaloneFetchRejected(r) ==
  /\ pc[r] = "await_fetch" /\ form[r] = "standalone"
  /\ remote' = [remote EXCEPT ![r].answer = "network_error"]
  /\ Settle(r, "rejected", NoData, Str("TypeError: fetch failed"))
  /\ UNCHANGED <<config, tester, invocation, req, res, nextCalls, outbound, hostDid>>

\* `return response.json()` with a body that is not JSON: the promise rejects.
StandaloneBodyUnparseable(r) ==
  /\ pc[r] = "await_json" /\ form[r] = "standalone"
  /\ remote' = [remote EXCEPT ![r].answer = "bad_json"]
  /\ Settle(r, "rejected", NoData, Str("SyntaxError: Unexpected token"))
  /\ UNCHANGED <<config, tester, invocation, req, res, nextCalls, outbound, hostDid>>

\* `return response.json()`: the promise resolves to whatever the body parses to.
StandaloneBodyParsed(r) ==
  /\ pc[r] = "await_json" /\ form[r] = "standalone"
  /\ \E data \in ParsedBodies :
       /\ remote' = [remote EXCEPT ![r] = [answer |-> "json", data |-> data]]
       /\ Settle(r, "resolved", data, Undefined)
  /\ UNCHANGED <<config, tester, invocation, req, res, nextCalls, outbound, hostDid>>

\* ------------------------------------------- test-utils: testInvalidApiKey
\* testInvalidApiKey() up to `await verifyIdentityToken('mock_token')`: the
\* key is saved, process.env is overwritten and the (already loaded) module
\* is asked to verify.
testInvalidApiKey(r) ==
  /\ tester.pc = "idle" /\ pc[r] = "idle"
  /\ env' = [env EXCEPT !.MOLTBOOK_APP_KEY = EnvAssign(Str("invalid_key"))]
  /\ tester' = [pc |-> "awaiting", slot |-> r,
                originalKey |-> env.MOLTBOOK_APP_KEY, returned |-> Undefined]
  /\ verifyIdentityToken_call(r, Str("mock_token"),
                              ModuleConstant(MOLTBOOK_APP_KEY, env'.MOLTBOOK_APP_KEY))
  /\ UNCHANGED <<MOLTBOOK_APP_KEY, MY_DOMAIN, auth, req, res, nextCalls, remote, hostDid>>

\* if (!result.valid || result.error === 'invalid_app_key')
testInvalidApiKey_handled(value) ==
  ~Truthy(value.valid) \/ value.error = Str("invalid_app_key")

\* What testInvalidApiKey does once the awaited promise has settled.
\*   rejected, or `result.valid` throws on null: catch, restore, return false
\*   the result counts as handled: return true from inside the try
\*   otherwise: restore, return false
testInvalidApiKey_afterAwait(r) ==
  /\ tester.pc = "awaiting" /\ tester.slot = r /\ pc[r] = "done"
  /\ LET threw == promise[r] = "rejected" \/ result[r].value.kind = "null"
         early == ~threw /\ testInvalidApiKey_handled(result[r].value)
     IN
     /\ env' = IF early THEN env
               ELSE [env EXCEPT !.MOLTBOOK_APP_KEY = EnvAssign(tester.originalKey)]
     /\ tester' = [tester EXCEPT !.pc = "returned",
                                 !.returned = IF early THEN True ELSE False]
  /\ UNCHANGED <<MOLTBOOK_APP_KEY, MY_DOMAIN, auth, pc, invocation, req, res, nextCalls,
                 outbound, remote, promise, result, hostDid>>

Next ==
  \E r \in Reqs :
    \/ verifyMoltbookIdentity(r)
    \/ MoltbookAuthMiddleware_verify(r)
    \/ FetchFulfilled(r)
    \/ FetchRejected(r)
    \/ BodyUnparseable(r)
    \/ BodyParsed(r)
    \/ verifyIdentityToken(r)
    \/ MoltbookAuthMiddleware_verifyToken(r)
    \/ StandaloneFetchRejected(r)
    \/ StandaloneBodyUnparseable(r)
    \/ StandaloneBodyParsed(r)
    \/ testInvalidApiKey(r)
    \/ testInvalidApiKey_afterAwait(r)

Spec == Init /\ [][Next]_vars

\* Fairness: the host hands every arrived request to its middleware, and a
\* response whose head has arrived delivers its body or breaks off.  Nothing
\* makes a remote that holds the connection answer: the fetch call carries
\* no signal and no timer runs beside it.
FairSpec ==
  /\ Spec
  /\ \A r \in Reqs :
       /\ WF_vars(verifyMoltbookIdentity(r) \/ MoltbookAuthMiddleware_verify(r))
       /\ WF_vars(BodyParsed(r) \/ BodyUnparseable(r))

\* ------------------------------------------------------------------ claims
\* The credential the middleware handling r reads.
Credential(r) == IF impl[r] = "ts" THEN auth.apiKey ELSE MOLTBOOK_APP_KEY

\* r is a request handed to a middleware / a call of the standalone form.
Handled(r) == form[r] = "middleware"
Called(r) == form[r] = "standalone"
Completed(r) == pc[r] = "done"
HasToken(r) == Handled(r) /\ Truthy(req[r].header)
\* The middleware found a non-empty token under the header name it reads.
FoundToken(r) == Handled(r) /\ Truthy(identityToken[r])
\* The remote body parsed to a value whose `valid` is falsy or absent.
Rejection(r) ==
  /\ Handled(r) /\ Completed(r)
  /\ remote[r].answer = "json"
  /\ remote[r].data.kind \in {"object", "primitive"}
  /\ ~Truthy(remote[r].data.valid)
IsAgentObject(v) == v.t = "object" /\ v.s = "agent"

\* C1: next() is called only if an outbound verification call was made for
\* this request's token and the remote response's `valid` was truthy; with a
\* missing token, a missing credential, a transport failure or a response
\* whose `valid` is falsy or absent, next() is never called.
C1_NextOnlyOnPositiveVerdict ==
  \A r \in Reqs :
    /\ nextCalls[r] > 0 =>
         /\ Len(outbound[r]) >= 1
         /\ outbound[r][1].token = req[r].header
         /\ remote[r].answer = "json"
         /\ Truthy(remote[r].data.valid)
    /\ (Handled(r) /\ (~Truthy(req[r].header) \/ ~Truthy(Credential(r)))) => nextCalls[r] = 0
    /\ remote[r].answer \in {"network_error", "bad_json"} => nextCalls[r] = 0
    /\ (remote[r].answer = "json" /\ ~Truthy(remote[r].data.valid)) => nextCalls[r] = 0

C1_Witness ==
  \E r \in Reqs : \E q \in Reqs :
    /\ Completed(r) /\ nextCalls[r] = 1 /\ Truthy(remote[r].data.valid)
    /\ Rejection(q) /\ remote[q].data.valid = False /\ nextCalls[q] = 0

\* C2: with a non-empty token, a configured credential and the remote answer
\* {valid: true, agent: A}, the middleware sets req.moltbookAgent to exactly
\* A, calls next() exactly once and sends no response.
C2_SuccessPath ==
  \A r \in Reqs :
    (/\ Completed(r) /\ HasToken(r) /\ Truthy(Credential(r))
     /\ remote[r].answer = "json"
     /\ remote[r].data.kind = "object"
     /\ remote[r].data.valid = True
     /\ IsAgentObject(remote[r].data.agent))
    => /\ req[r].assigned
       /\ req[r].moltbookAgent = remote[r].data.agent
       /\ nextCalls[r] = 1
       /\ res[r].jsonCalls = 0
       /\ res[r].statusCode = Undefined

\* C3: a request whose identity header is absent or the empty string gets
\* status 401 with the missing-token error and a hint, next() is not called
\* and no outbound call is issued.
C3_MissingToken ==
  \A r \in Reqs :
    (Handled(r) /\ req[r].header \in {Undefined, Str("")}) =>
      /\ Completed(r)
      /\ res[r].jsonCalls = 1
      /\ res[r].statusCode = Num(401)
      /\ res[r].error = Str("Missing identity token")
      /\ res[r].hint.t = "string" /\ res[r].hint.s # ""
      /\ nextCalls[r] = 0
      /\ outbound[r] = <<>>
      /\ remote[r].answer = "none"

C3_Witness ==
  /\ \E r \in Reqs : Handled(r) /\ req[r].header = Str("") /\ res[r].statusCode = Num(401)
  /\ \E r \in Reqs : Handled(r) /\ req[r].header = Undefined /\ res[r].statusCode = Num(401)

\* C4 as stated: every request handled while the credential is unset or
\* empty gets status 500 with a configuration hint, next() is not called and
\* no outbound call is issued.
C4_Original ==
  \A r \in Reqs :
    (Handled(r) /\ ~Truthy(Credential(r))) =>
      /\ res[r].statusCode = Num(500)
      /\ res[r].hint = Str("MOLTBOOK_APP_KEY is not configured")
      /\ nextCalls[r] = 0
      /\ outbound[r] = <<>>

\* C4 amended: while the credential is unset or empty, every request in
\* which the middleware finds a non-empty identity token gets status 500
\* with the configuration error and hint; a request in which it finds none
\* gets the 401 of the token check, which runs first; in both cases next()
\* is not called and no outbound call is issued.
C4_MissingCredential ==
  \A r \in Reqs :
    (Handled(r) /\ ~Truthy(Credential(r))) =>
      /\ Completed(r)
      /\ res[r].jsonCalls = 1
      /\ FoundToken(r) =>
           /\ res[r].statusCode = Num(500)
           /\ res[r].error = Str("Server configuration error")
           /\ res[r].hint = Str("MOLTBOOK_APP_KEY is not configured")
      /\ ~FoundToken(r) => res[r].statusCode = Num(401)
      /\ nextCalls[r] = 0
      /\ outbound[r] = <<>>
      /\ remote[r].answer = "none"

C4_Witness ==
  /\ \E r \in Reqs : FoundToken(r) /\ Credential(r) = Str("") /\ res[r].statusCode = Num(500)
  /\ \E r \in Reqs : Handled(r) /\ ~FoundToken(r) /\ Credential(r) = Str("")
                      /\ res[r].statusCode = Num(401)

\* The status table of the specification.
TableStatus ==
  [identity_token_expired |-> 401, invalid_token |-> 401, audience_required |-> 401,
   audience_mismatch |-> 401, missing_app_key |-> 401, invalid_app_key |-> 401,
   agent_not_found |-> 404, agent_deactivated |-> 403, rate_limit_exceeded |-> 429]

InTable(error) == error.t = "string" /\ error.s \in DOMAIN TableStatus

\* C5: for a remote response whose `valid` is falsy or absent and whose
\* `error` is one of the nine table codes, the response status is the
\* table's status for that code.
C5_StatusMatchesTable ==
  \A r \in Reqs :
    (Rejection(r) /\ InTable(remote[r].data.error)) =>
      /\ res[r].jsonCalls = 1
      /\ res[r].statusCode = Num(TableStatus[remote[r].data.error.s])

C5_Witness ==
  /\ \E r \in Reqs :
       /\ Rejection(r) /\ remote[r].data.valid = Undefined
       /\ remote[r].data.error = Str("rate_limit_exceeded")
       /\ res[r].statusCode = Num(429)
  /\ \E r \in Reqs :
       /\ Rejection(r) /\ remote[r].data.valid = False
       /\ remote[r].data.error = Str("agent_deactivated")
       /\ res[r].statusCode = Num(403)

\* C6: for every `error` value outside the nine table codes (absent, empty,
\* any other string, also one naming a property every object inherits) the
\* middleware responds 401 with the hint 'Identity verification failed.'.
C6_UnknownCodeDefaults ==
  \A r \in Reqs :
    (Rejection(r) /\ ~InTable(remote[r].data.error)) =>
      /\ res[r].statusCode = Num(401)
      /\ res[r].hint = Str("Identity verification failed.")

\* C7: for a remote rejection with table code E the body is {error: E,
\* hint: H}: E is the remote's code unchanged, H is the hint of the local
\* table for E, whatever `hint` the remote response carried; the table has
\* one distinct hint per code.
C7_RejectionBody ==
  /\ \A r \in Reqs :
       (Rejection(r) /\ InTable(remote[r].data.error)) =>
         /\ res[r].error = remote[r].data.error
         /\ res[r].hint = (IF impl[r] = "js" THEN hints ELSE tsHints)[remote[r].data.error.s]
         /\ res[r].hint # remote[r].data.hint
  /\ \A c, d \in DOMAIN TableStatus :
       /\ c # d => hints[c] # hints[d] /\ tsHints[c] # tsHints[d]
       /\ hints[c].t = "string" /\ hints[c].s # ""

C7_Witness ==
  \E r \in Reqs :
    /\ Rejection(r)
    /\ remote[r].data.error = Str("identity_token_expired")
    /\ remote[r].data.hint = RemoteHint
    /\ res[r].hint = Str("Your identity token has expired. Request a new token from Moltbook and try again.")

C9_BoundedTimeout ==
  \A r \in Reqs :
    (Handled(r) /\ pc[r] = "await_fetch") ~>
      (Completed(r) /\ (remote[r].answer = "none" => res[r].statusCode = Num(500)))

C11_NoSilentResult ==
  \A r \in Reqs :
    (Called(r) /\ Completed(r)) =>
      \/ promise[r] = "rejected" /\ Truthy(result[r].error)
      \/ /\ promise[r] = "resolved"
         /\ result[r].value.kind = "object"
         /\ (result[r].value.agent # Undefined \/ result[r].value.error # Undefined)

\* C12: with the credential unset or empty, the standalone form rejects with
\* the configuration error for every token and issues no outbound call, on
\* every call.
C12_StandaloneFailFast ==
  \A r \in Reqs :
    (Called(r) /\ ~Truthy(Credential(r))) =>
      /\ Completed(r)
      /\ promise[r] = "rejected"
      /\ result[r].error = ConfigurationError
      /\ result[r].value = NoData
      /\ outbound[r] = <<>>
      /\ remote[r].answer = "none"

C12_Witness ==
  \E r \in Reqs : \E q \in Reqs :
    /\ r # q /\ Called(r) /\ Called(q)
    /\ impl[r] = "js" /\ impl[q] = "ts"
    /\ Credential(r) = Str("")
    /\ identityToken[r] = Token(1) /\ identityToken[q] = Str("")
    /\ promise[r] = "rejected" /\ promise[q] = "rejected"

\* C13: each invocation of the middleware and of the standalone form issues
\* at most one outbound call, whatever the remote answers.
C13_NoRetries ==
  \A r \in Reqs :
    /\ Len(outbound[r]) <= 1
    /\ remote[r].answer # "none" => Len(outbound[r]) = 1

C13_Witness ==
  /\ \E r \in Reqs :
       /\ Handled(r) /\ Completed(r) /\ Len(outbound[r]) = 1
       /\ remote[r].data.error = Str("rate_limit_exceeded")
  /\ \E r \in Reqs :
       /\ Called(r) /\ Completed(r) /\ Len(outbound[r]) = 1
       /\ remote[r].answer = "network_error"

\* The audience the configuration asks for: the configured one, or
\* 'default' when none is set.
ConfiguredAudience ==
  IF env.MOLTBOOK_AUDIENCE \in {Undefined, Str("")}
  THEN Str("default") ELSE env.MOLTBOOK_AUDIENCE

\* C14: every outbound payload, from the middleware and from the standalone
\* form, has an `audience` equal to the configured audience, or to 'default'
\* when the audience is unset or empty.
C14_AudienceAlwaysSent ==
  \A r \in Reqs : \A i \in 1..Len(outbound[r]) :
    /\ outbound[r][i].audience = ConfiguredAudience
    /\ outbound[r][i].audience.t = "string" /\ outbound[r][i].audience.s # ""

C14_Witness ==
  /\ env.MOLTBOOK_AUDIENCE = Str("")
  /\ \E r \in Reqs : Called(r) /\ Len(outbound[r]) = 1
                      /\ outbound[r][1].audience = Str("default")
  /\ \E r \in Reqs : Handled(r) /\ impl[r] = "ts" /\ Len(outbound[r]) = 1
                      /\ outbound[r][1].audience = Str("default")

\* C15: every outbound call is a POST to the configured verify endpoint, its
\* X-Moltbook-App-Key header is the configured credential and its body
\* `token` is the token the caller presented (the identity header value, or
\* the argument of the standalone form), unmodified.
C15_OutboundShape ==
  \A r \in Reqs : \A i \in 1..Len(outbound[r]) :
    /\ outbound[r][i].method = "POST"
    /\ outbound[r][i].url = Str("https://moltbook.com/api/v1/agents/verify-identity")
    /\ outbound[r][i].appKey = Credential(r)
    /\ Truthy(outbound[r][i].appKey)
    /\ Handled(r) => outbound[r][i].token = req[r].header
    /\ Called(r) => outbound[r][i].token = identityToken[r]

C15_Witness ==
  /\ \E r \in Reqs : Handled(r) /\ Len(outbound[r]) = 1 /\ outbound[r][1].token = Token(1)
  /\ \E r \in Reqs : Called(r) /\ Len(outbound[r]) = 1 /\ outbound[r][1].token = Str("")

\* C16: for every configured headerName and a request whose header map holds
\* the token under the lower-cased name, the typed middleware finds the token
\* and proceeds to verification instead of answering 401 missing token.
C16_HeaderNameCaseInsensitive ==
  \A r \in Reqs :
    (Handled(r) /\ impl[r] = "ts" /\ Truthy(req[r].header)) =>
      /\ identityToken[r] = req[r].header
      /\ res[r].error # Str("Missing identity token")

\* What a verification was given: implementation, entry point, token.
SameVerification(r, q) ==
  /\ impl[r] = impl[q] /\ form[r] = form[q]
  /\ IF Handled(r) THEN req[r].header = req[q].header
     ELSE identityToken[r] = identityToken[q]

C18_ErrorAndHintPresent ==
  \A r \in Reqs :
    res[r].jsonCalls >= 1 =>
      /\ res[r].error.t = "string" /\ res[r].error.s # ""
      /\ res[r].hint.t = "string" /\ res[r].hint.s # ""

\* C19: every completed middleware invocation either calls next() exactly
\* once or sends exactly one response, never both and never neither.
C19_ExactlyOneOutcome ==
  \A r \in Reqs :
    (Handled(r) /\ Completed(r)) =>
      \/ nextCalls[r] = 1 /\ res[r].jsonCalls = 0
      \/ nextCalls[r] = 0 /\ res[r].jsonCalls = 1

\* C20: the token check runs before the credential check: a request without
\* a token is answered 401 (missing token) even when the credential is
\* unset, and the 500 configuration error is produced only for requests that
\* carry a token.
C20_TokenCheckFirst ==
  \A r \in Reqs :
    Handled(r) =>
      /\ (~HasToken(r) /\ ~Truthy(Credential(r))) =>
           /\ res[r].statusCode = Num(401)
           /\ res[r].error = Str("Missing identity token")
      /\ (res[r].statusCode = Num(500)
          /\ res[r].error = Str("Server configuration error")) =>
           /\ HasToken(r)
           /\ ~Truthy(Credential(r))
           /\ outbound[r] = <<>>

C20_Witness ==
  /\ env.MOLTBOOK_APP_KEY = Undefined
  /\ \E r \in Reqs : Handled(r) /\ req[r].header = Undefined /\ res[r].statusCode = Num(401)
                      /\ impl[r] = "js"
  /\ \E r \in Reqs : Handled(r) /\ req[r].header = Token(1)
                      /\ res[r].error = Str("Server configuration error")

\* The two shapes the remote contract allows for a parsed body.
SuccessShape(data) ==
  data.kind = "object" /\ data.valid = True /\ IsAgentObject(data.agent)
FailureShape(data) ==
  /\ data.kind = "object" /\ data.valid = False
  /\ data.error.t = "string" /\ data.error.s # ""

\* C21: a parsed remote response that is neither the success shape nor the
\* failure shape is answered 500 as an internal verification failure; next()
\* is not called and no agent, missing or partial, is attached to the request.
C21_UnshapedIsTransportError ==
  \A r \in Reqs :
    (/\ Handled(r) /\ Completed(r) /\ remote[r].answer = "json"
     /\ ~SuccessShape(remote[r].data) /\ ~FailureShape(remote[r].data))
    => /\ res[r].jsonCalls = 1
       /\ res[r].statusCode = Num(500)
       /\ res[r].error = Str("Failed to verify identity")
       /\ nextCalls[r] = 0
       /\ ~req[r].assigned

\* C22: for the same implementation, token, configuration and remote
\* behaviour, the standalone form resolves to a result with truthy `valid`
\* exactly when the middleware calls next(); when the middleware terminates
\* the request, the standalone form resolves to falsy `valid` or rejects.
C22_EntryPointsAgree ==
  \A r \in Reqs : \A q \in Reqs :
    (/\ Handled(r) /\ Completed(r) /\ Called(q) /\ Completed(q)
     /\ impl[r] = impl[q]
     /\ req[r].header = identityToken[q]
     /\ remote[r] = remote[q])
    => (nextCalls[r] >= 1 <=>
          /\ promise[q] = "resolved"
          /\ result[q].value.kind = "object"
          /\ Truthy(result[q].value.valid))

\* C23: with the default header name the typed middleware and the js
\* middleware produce the same outcome (continue or terminate, status, error,
\* attached agent, outbound token) for every header value and every remote
\* response, and their status and hint tables are identical.
C23_SameLogic ==
  /\ statusMap = tsStatusMap
  /\ hints = tsHints
  /\ \A r \in Reqs : \A q \in Reqs :
       (/\ Handled(r) /\ Completed(r) /\ impl[r] = "js"
        /\ Handled(q) /\ Completed(q) /\ impl[q] = "ts"
        /\ auth.headerName = Str("x-moltbook-identity")
        /\ req[r].header = req[q].header
        /\ remote[r] = remote[q]
        /\ hostDid[r] = hostDid[q])
       => /\ nextCalls[r] = nextCalls[q]
          /\ res[r].jsonCalls = res[q].jsonCalls
          /\ res[r].statusCode = res[q].statusCode
          /\ res[r].error = res[q].error
          /\ req[r].moltbookAgent = req[q].moltbookAgent
          /\ outbound[r] = outbound[q]

\* Everything the program holds for one request slot.
Slot(r) ==
  <<pc[r], impl[r], form[r], identityToken[r], req[r], res[r], nextCalls[r],
    outbound[r], remote[r], promise[r], result[r], hostDid[r]>>

\* The errors the middleware produces itself.
LocalErrors ==
  {Str("Missing identity token"), Str("Server configuration error"),
   Str("Failed to verify identity")}

\* The outcome of r comes from r's own token and the remote's answer to r's
\* own call.
OwnOutcome(r) ==
  /\ \A i \in 1..Len(outbound[r]) : outbound[r][i].token = req[r].header
  /\ req[r].assigned =>
       /\ remote[r].answer = "json"
       /\ req[r].moltbookAgent = remote[r].data.agent
  /\ ~req[r].assigned => req[r].moltbookAgent = Undefined
  /\ res[r].jsonCalls >= 1 =>
       \/ res[r].error \in LocalErrors
       \/ remote[r].answer = "json" /\ res[r].error = remote[r].data.error
  /\ nextCalls[r] >= 1 => remote[r].answer = "json" /\ Truthy(remote[r].data.valid)
  /\ ~Completed(r) => res[r] = NewResponse /\ nextCalls[r] = 0 /\ ~req[r].assigned

\* C24: in every interleaving of in-flight middleware invocations each
\* request's outcome and attached agent come from its own token and the
\* remote's answer to its own call, and a step of one invocation changes
\* nothing held for another.
C24_Independent ==
  /\ [](\A r \in Reqs : Handled(r) => OwnOutcome(r))
  /\ [][\E r \in Reqs : \A q \in Reqs \ {r} : Slot(q)' = Slot(q)]_vars

C24_Witness ==
  \E r \in Reqs : \E q \in Reqs :
    /\ r # q /\ Handled(r) /\ Handled(q)
    /\ req[r].header = req[q].header
    /\ Completed(q) /\ req[q].moltbookAgent = Agent(1) /\ nextCalls[q] = 1
    /\ Completed(r) /\ res[r].error = Str("agent_not_found") /\ nextCalls[r] = 0
    /\ ~req[r].assigned

\* The configuration an implementation captured when it came to exist.
Captured(r) ==
  IF impl[r] = "ts"
  THEN [credential |-> auth.apiKey, audience |-> auth.audience,
        endpoint |-> auth.verifyEndpoint]
  ELSE [credential |-> MOLTBOOK_APP_KEY, audience |-> MY_DOMAIN,
        endpoint |-> MOLTBOOK_VERIFY_ENDPOINT]

\* C25: once the module is loaded and the MoltbookAuthMiddleware constructed,
\* no step changes the credential, audience, endpoint or header name, and
\* every outbound call carries the captured values, also after process.env
\* has been changed.
C25_ConfigurationFixed ==
  /\ [][MOLTBOOK_APP_KEY' = MOLTBOOK_APP_KEY /\ MY_DOMAIN' = MY_DOMAIN /\ auth' = auth]_vars
  /\ [](\A r \in Reqs : \A i \in 1..Len(outbound[r]) :
          /\ outbound[r][i].appKey = Captured(r).credential
          /\ outbound[r][i].audience = Captured(r).audience
          /\ outbound[r][i].url = Captured(r).endpoint)

C25_Witness ==
  /\ MOLTBOOK_APP_KEY = Str("moltdev_abc123")
  /\ env.MOLTBOOK_APP_KEY = Str("invalid_key")
  /\ \E r \in Reqs : tester.slot = r /\ Len(outbound[r]) = 1
                      /\ outbound[r][1].appKey = Str("moltdev_abc123")
  /\ \E r \in Reqs : Handled(r) /\ Len(outbound[r]) = 1
                      /\ outbound[r][1].appKey = Str("moltdev_abc123")

\* C26: on every path where the middleware terminates the request with an
\* error response, req.moltbookAgent has not been assigned and the request
\* is as it arrived.
C26_FailureLeavesRequest ==
  \A r \in Reqs :
    (Handled(r) /\ res[r].jsonCalls >= 1) =>
      /\ ~req[r].assigned
      /\ req[r] = [NewRequest EXCEPT !.header = req[r].header]

\* C27: the missing-credential response (500, 'Server configuration error')
\* differs in status or error from every response produced after the remote
\* was called: for a rejection with any error value, and for a transport
\* failure.
C27_ConfigurationErrorDistinct ==
  \A r \in Reqs :
    Handled(r) =>
      /\ (Completed(r) /\ FoundToken(r) /\ ~Truthy(Credential(r))) =>
           /\ res[r].statusCode = Num(500)
           /\ res[r].error = Str("Server configuration error")
      /\ (res[r].jsonCalls >= 1 /\ remote[r].answer # "none") =>
           ~(/\ res[r].statusCode = Num(500)
             /\ res[r].error = Str("Server configuration error"))

C27_Witness ==
  /\ \E r \in Reqs :
       /\ Rejection(r) /\ remote[r].data.error = Str("Server configuration error")
       /\ res[r].error = Str("Server configuration error")
       /\ res[r].statusCode = Num(401)
  /\ \E r \in Reqs :
       /\ Handled(r) /\ remote[r].answer = "network_error"
       /\ res[r].statusCode = Num(500)

\* C28: the 500 body sent for a transport or processing failure is one
\* constant, and no response body contains the application credential or the
\* configured audience.
C28_NoInternalDetail ==
  \A r \in Reqs :
    (Handled(r) /\ res[r].jsonCalls >= 1) =>
      /\ remote[r].answer \in {"network_error", "bad_json"} =>
           res[r] = Respond(NewResponse, Num(500), Str("Failed to verify identity"),
                            Str("An error occurred while verifying your identity. Please try again."))
      /\ Truthy(Captured(r).credential) =>
           /\ res[r].error # Captured(r).credential
           /\ res[r].hint # Captured(r).credential
      /\ res[r].error # Captured(r).audience
      /\ res[r].hint # Captured(r).audience

\* C29: on every exit path of testInvalidApiKey, process.env.MOLTBOOK_APP_KEY
\* after the function has returned equals its value before the call.
C29_KeyRestored ==
  tester.pc = "returned" => env.MOLTBOOK_APP_KEY = tester.originalKey

====
